---- MODULE Spec2Model ----
(***************************************************************************)
(* Model of c_example.c: main() is a straight-line script of ADBC driver   *)
(* calls.  Every driver call is one step; its status code is chosen by the *)
(* driver (the environment).  pc holds the source line of the next         *)
(* statement of main().                                                    *)
(***************************************************************************)
EXTENDS Integers, Sequences, FiniteSets

VARIABLES pc, calls, out, error, exitCode, constructed, released

vars == <<pc, calls, out, error, exitCode, constructed, released>>

\* ---------------------------------------------------------------- bounds
\* Status codes the driver may return are 0..MaxStatus (0 is OK).
MaxStatus == 2

\* ------------------------------------------------------------- constants
ADBC_STATUS_OK == 0

AdbcStatusCode == 0..MaxStatus

\* pc value once main() has returned.
Terminated == 0

\* exitCode while main() is still running.
Running == -1

\* The handles main() owns.  The C variable `statement` is re-created four
\* times and `schema`/`array` twice; each instance has its own name.
Statements == {"statement1", "statement2", "statement3", "statement4"}

Handles == {"database", "connection"} \cup Statements
             \cup {"schema1", "array1", "schema2", "array2"}

\* ---------------------------------------------------------------- helpers
\* One driver call as seen at the driver boundary: the entry point, the
\* source line of the call site, the handle it acts on, every handle passed
\* to it, and the status it returned.
Call(fn, line, h, uses, code) ==
  [fn |-> fn, line |-> line, h |-> h, uses |-> uses, code |-> code]

\* One line of output: msg is the error record printed through %s (0 when
\* the format has no %s), at is the number of driver calls made so far.
fprintf(o, stream, text, msg, n) ==
  Append(o, [stream |-> stream, text |-> text, msg |-> msg, at |-> n])

printf(o, text, msg, n) == fprintf(o, "stdout", text, msg, n)

\* Making a driver call: the call is recorded and, on a non-OK status, the
\* driver populates the error out-parameter.  error holds the index of the
\* call whose message it carries (0: still the {0} of line 38).
Invoke(fn, line, h, uses, code) ==
  /\ calls' = Append(calls, Call(fn, line, h, uses, code))
  /\ error' = IF code # ADBC_STATUS_OK THEN Len(calls) + 1 ELSE error

\* Mutant: the macro prints but does not return.
CHECK_ADBC_noreturn(code, next) ==
  /\ out' = IF code # ADBC_STATUS_OK
              THEN fprintf(out, "stderr", "Error: %s", error', Len(calls'))
              ELSE out
  /\ exitCode' = exitCode
  /\ pc' = next

\* Mutant: the macro reports on standard output.
CHECK_ADBC_stdout(code, next) ==
  IF code # ADBC_STATUS_OK
    THEN /\ out' = printf(out, "Error: %s", error', Len(calls'))
         /\ exitCode' = 1
         /\ pc' = Terminated
    ELSE /\ out' = out
         /\ exitCode' = exitCode
         /\ pc' = next

\* The CHECK_ADBC macro, applied to the status of the call just made.
CHECK_ADBC(code, next) ==
  IF code # ADBC_STATUS_OK
    THEN /\ out' = fprintf(out, "stderr", "Error: %s", error', Len(calls'))
         /\ exitCode' = 1
         /\ pc' = Terminated
    ELSE /\ out' = out
         /\ exitCode' = exitCode
         /\ pc' = next

\* A handle exists once its constructor returned OK.
Construct(h, code) ==
  constructed' = IF code = ADBC_STATUS_OK THEN constructed \cup {h}
                                          ELSE constructed

\* A release call (or release callback) was made on h.
Release(h) == released' = [released EXCEPT ![h] = @ + 1]

\* A printf statement of main() that is a step of its own.
Emit(line, text, next) ==
  /\ pc = line
  /\ out' = printf(out, text, 0, Len(calls))
  /\ pc' = next
  /\ UNCHANGED <<calls, error, exitCode, constructed, released>>

\* A CHECK_ADBC-wrapped call that constructs handle h.
CheckedNew(line, fn, h, uses, next) ==
  /\ pc = line
  /\ \E code \in AdbcStatusCode :
       /\ Invoke(fn, line, h, uses, code)
       /\ CHECK_ADBC(code, next)
       /\ Construct(h, code)
  /\ UNCHANGED released

\* A CHECK_ADBC-wrapped call on an existing handle h.
Checked(line, fn, h, uses, next) ==
  /\ pc = line
  /\ \E code \in AdbcStatusCode :
       /\ Invoke(fn, line, h, uses, code)
       /\ CHECK_ADBC(code, next)
  /\ UNCHANGED <<constructed, released>>

\* A driver release call whose status is discarded.
Unchecked(line, fn, h, next) ==
  /\ pc = line
  /\ \E code \in AdbcStatusCode : Invoke(fn, line, h, {h}, code)
  /\ Release(h)
  /\ pc' = next
  /\ UNCHANGED <<out, exitCode, constructed>>

\* The release callback of an Arrow schema or array.
ArrowRelease(line, h, next) ==
  /\ pc = line
  /\ Release(h)
  /\ pc' = next
  /\ UNCHANGED <<calls, out, error, exitCode, constructed>>

\* Building a schema/array pair with nanoarrow.  The source discards the
\* nanoarrow return codes; the construction is modelled as succeeding.
ArrowBuild(line, schema, array, next) ==
  /\ pc = line
  /\ constructed' = constructed \cup {schema, array}
  /\ pc' = next
  /\ UNCHANGED <<calls, out, error, exitCode, released>>

\* ------------------------------------------------------------------ Init
Init ==
  /\ pc = 44
  /\ calls = <<>>
  /\ out = <<>>
  /\ error = 0
  /\ exitCode = Running
  /\ constructed = {}
  /\ released = [h \in Handles |-> 0]

\* --------------------------------------------------- stage 1: connection
printf_44 == Emit(44, "Initializing PostgreSQL driver...", 45)

AdbcDatabaseNew_45 ==
  CheckedNew(45, "AdbcDatabaseNew", "database", {"database"}, 46)

AdbcDatabaseSetOption_46 ==
  Checked(46, "AdbcDatabaseSetOption", "database", {"database"}, 47)

AdbcDatabaseSetOption_47 ==
  Checked(47, "AdbcDatabaseSetOption", "database", {"database"}, 48)

AdbcDatabaseInit_48 ==
  Checked(48, "AdbcDatabaseInit", "database", {"database"}, 51)

AdbcConnectionNew_51 ==
  CheckedNew(51, "AdbcConnectionNew", "connection", {"connection"}, 52)

AdbcConnectionInit_52 ==
  Checked(52, "AdbcConnectionInit", "connection",
          {"connection", "database"}, 55)

\* ------------------------------------------------ stage 2: DROP / CREATE
printf_55 == Emit(55, "Creating test table...", 56)

AdbcStatementNew_56 ==
  CheckedNew(56, "AdbcStatementNew", "statement1",
             {"connection", "statement1"}, 57)

AdbcStatementSetSqlQuery_57 ==
  Checked(57, "AdbcStatementSetSqlQuery", "statement1", {"statement1"}, 60)

AdbcStatementExecuteQuery_60 ==
  Checked(60, "AdbcStatementExecuteQuery", "statement1", {"statement1"}, 61)

AdbcStatementRelease_61 ==
  Unchecked(61, "AdbcStatementRelease", "statement1", 63)

AdbcStatementNew_63 ==
  CheckedNew(63, "AdbcStatementNew", "statement2",
             {"connection", "statement2"}, 64)

AdbcStatementSetSqlQuery_64 ==
  Checked(64, "AdbcStatementSetSqlQuery", "statement2", {"statement2"}, 67)

AdbcStatementExecuteQuery_67 ==
  Checked(67, "AdbcStatementExecuteQuery", "statement2", {"statement2"}, 68)

AdbcStatementRelease_68 ==
  Unchecked(68, "AdbcStatementRelease", "statement2", 71)

\* ------------------------------------------ stage 3: Test 1 (non-NULL row)
printf_71 == Emit(71, "Test 1: Insert with non-NULL values...", 72)

AdbcStatementNew_72 ==
  CheckedNew(72, "AdbcStatementNew", "statement3",
             {"connection", "statement3"}, 73)

AdbcStatementSetSqlQuery_73 ==
  Checked(73, "AdbcStatementSetSqlQuery", "statement3", {"statement3"}, 80)

ArrowBuild_80 == ArrowBuild(80, "schema1", "array1", 95)

\* Mutant: the status of the Test 1 bind is discarded.
AdbcStatementBind_95_unchecked ==
  /\ pc = 95
  /\ \E code \in AdbcStatusCode :
       Invoke("AdbcStatementBind", 95, "statement3",
              {"statement3", "array1", "schema1"}, code)
  /\ pc' = 96
  /\ UNCHANGED <<out, exitCode, constructed, released>>

AdbcStatementBind_95 ==
  Checked(95, "AdbcStatementBind", "statement3",
          {"statement3", "array1", "schema1"}, 96)

AdbcStatementExecuteQuery_96 ==
  Checked(96, "AdbcStatementExecuteQuery", "statement3", {"statement3"}, 97)

printf_97 == Emit(97, "Success: Non-NULL values inserted", 99)

array_release_99 == ArrowRelease(99, "array1", 100)

schema_release_100 == ArrowRelease(100, "schema1", 101)

\* Mutant: the Test 1 statement is not released.
AdbcStatementRelease_101_skipped ==
  /\ pc = 101
  /\ pc' = 104
  /\ UNCHANGED <<calls, out, error, exitCode, constructed, released>>

AdbcStatementRelease_101 ==
  Unchecked(101, "AdbcStatementRelease", "statement3", 104)

\* --------------------------------------------- stage 4: Test 2 (NULL row)
printf_104 == Emit(104, "Test 2: Insert with NULL value...", 105)

\* Mutant: a failing AdbcStatementNew of Test 2 is not fatal.
AdbcStatementNew_105_nonfatal ==
  /\ pc = 105
  /\ \E code \in AdbcStatusCode :
       /\ Invoke("AdbcStatementNew", 105, "statement4",
                 {"connection", "statement4"}, code)
       /\ Construct("statement4", code)
       /\ IF code # ADBC_STATUS_OK
            THEN /\ out' = fprintf(out, "stderr", "Error: %s", error',
                                   Len(calls'))
                 /\ exitCode' = 0
                 /\ pc' = Terminated
            ELSE /\ out' = out
                 /\ exitCode' = exitCode
                 /\ pc' = 106
  /\ UNCHANGED released

AdbcStatementNew_105 ==
  CheckedNew(105, "AdbcStatementNew", "statement4",
             {"connection", "statement4"}, 106)

AdbcStatementSetSqlQuery_106 ==
  Checked(106, "AdbcStatementSetSqlQuery", "statement4", {"statement4"}, 111)

ArrowBuild_111 == ArrowBuild(111, "schema2", "array2", 127)

\* Mutant: the Test 2 bind is wrapped in CHECK_ADBC like the Test 1 bind.
AdbcStatementBind_127_checked ==
  Checked(127, "AdbcStatementBind", "statement4",
          {"statement4", "array2", "schema2"}, 132)

\* Mutant: the execute is attempted whatever the bind returned.
AdbcStatementBind_127_fallthrough ==
  /\ pc = 127
  /\ \E code \in AdbcStatusCode :
       /\ Invoke("AdbcStatementBind", 127, "statement4",
                 {"statement4", "array2", "schema2"}, code)
       /\ out' = IF code # ADBC_STATUS_OK
                   THEN printf(printf(out, "Failed: %s", error', Len(calls')),
                          "This is the bug - can't map Arrow type 'na' to Postgres type",
                          0, Len(calls'))
                   ELSE out
  /\ pc' = 132
  /\ UNCHANGED <<exitCode, constructed, released>>

\* Lines 127-131: the bind of Test 2 and the report of its failure.
AdbcStatementBind_127 ==
  /\ pc = 127
  /\ \E code \in AdbcStatusCode :
       /\ Invoke("AdbcStatementBind", 127, "statement4",
                 {"statement4", "array2", "schema2"}, code)
       /\ IF code # ADBC_STATUS_OK
            THEN /\ out' = printf(printf(out, "Failed: %s", error', Len(calls')),
                             "This is the bug - can't map Arrow type 'na' to Postgres type",
                             0, Len(calls'))
                 /\ pc' = 140
            ELSE /\ out' = out
                 /\ pc' = 132
  /\ UNCHANGED <<exitCode, constructed, released>>

\* Lines 132-137: the execute of Test 2 and the report of its outcome.
AdbcStatementExecuteQuery_132 ==
  /\ pc = 132
  /\ \E code \in AdbcStatusCode :
       /\ Invoke("AdbcStatementExecuteQuery", 132, "statement4",
                 {"statement4"}, code)
       /\ out' = IF code = ADBC_STATUS_OK
                   THEN printf(out, "Success: NULL value inserted", 0,
                               Len(calls'))
                   ELSE printf(out, "Failed: %s", error', Len(calls'))
  /\ pc' = 140
  /\ UNCHANGED <<exitCode, constructed, released>>

array_release_140 == ArrowRelease(140, "array2", 141)

schema_release_141 == ArrowRelease(141, "schema2", 142)

AdbcStatementRelease_142 ==
  Unchecked(142, "AdbcStatementRelease", "statement4", 145)

\* ---------------------------------------------------------------- cleanup
printf_145 == Emit(145, "Cleaning up...", 146)

AdbcConnectionRelease_146 ==
  Unchecked(146, "AdbcConnectionRelease", "connection", 147)

AdbcDatabaseRelease_147 ==
  Unchecked(147, "AdbcDatabaseRelease", "database", 149)

\* Lines 149-153: the SUMMARY block, printed unconditionally.
printf_149 ==
  /\ pc = 149
  /\ out' = printf(printf(printf(printf(printf(out,
                "====", 0, Len(calls)),
                "SUMMARY:", 0, Len(calls)),
                "Non-NULL parameters work correctly", 0, Len(calls)),
                "NULL parameters fail with Arrow type 'na' mapping error",
                0, Len(calls)),
                "====", 0, Len(calls))
  /\ pc' = 155
  /\ UNCHANGED <<calls, error, exitCode, constructed, released>>

return_155 ==
  /\ pc = 155
  /\ exitCode' = 0
  /\ pc' = Terminated
  /\ UNCHANGED <<calls, out, error, constructed, released>>

Next ==
  \/ printf_44
  \/ AdbcDatabaseNew_45
  \/ AdbcDatabaseSetOption_46
  \/ AdbcDatabaseSetOption_47
  \/ AdbcDatabaseInit_48
  \/ AdbcConnectionNew_51
  \/ AdbcConnectionInit_52
  \/ printf_55
  \/ AdbcStatementNew_56
  \/ AdbcStatementSetSqlQuery_57
  \/ AdbcStatementExecuteQuery_60
  \/ AdbcStatementRelease_61
  \/ AdbcStatementNew_63
  \/ AdbcStatementSetSqlQuery_64
  \/ AdbcStatementExecuteQuery_67
  \/ AdbcStatementRelease_68
  \/ printf_71
  \/ AdbcStatementNew_72
  \/ AdbcStatementSetSqlQuery_73
  \/ ArrowBuild_80
  \/ AdbcStatementBind_95
  \/ AdbcStatementExecuteQuery_96
  \/ printf_97
  \/ array_release_99
  \/ schema_release_100
  \/ AdbcStatementRelease_101
  \/ printf_104
  \/ AdbcStatementNew_105
  \/ AdbcStatementSetSqlQuery_106
  \/ ArrowBuild_111
  \/ AdbcStatementBind_127
  \/ AdbcStatementExecuteQuery_132
  \/ array_release_140
  \/ schema_release_141
  \/ AdbcStatementRelease_142
  \/ printf_145
  \/ AdbcConnectionRelease_146
  \/ AdbcDatabaseRelease_147
  \/ printf_149
  \/ return_155

Spec == Init /\ [][Next]_vars

TypeOK ==
  /\ pc \in Nat
  /\ exitCode \in {Running, 0, 1}
  /\ error \in 0..Len(calls)
  /\ constructed \subseteq Handles
  /\ \A h \in Handles : released[h] \in Nat
  /\ \A i \in 1..Len(calls) : calls[i].code \in AdbcStatusCode

\* ------------------------------------------------- vocabulary of the claims
ReleaseFns ==
  {"AdbcStatementRelease", "AdbcConnectionRelease", "AdbcDatabaseRelease"}

StatementFns ==
  {"AdbcStatementNew", "AdbcStatementSetSqlQuery", "AdbcStatementBind",
   "AdbcStatementExecuteQuery", "AdbcStatementRelease"}

\* The stage of main() a call site belongs to.
Stage(line) ==
  IF line <= 52 THEN "connect"
  ELSE IF line <= 68 THEN "schema"
  ELSE IF line <= 101 THEN "test1"
  ELSE IF line <= 142 THEN "test2"
  ELSE "cleanup"

EarlyStages == {"connect", "schema", "test1"}

Failed(i) == calls[i].code # ADBC_STATUS_OK

CallAt(line) == \E i \in 1..Len(calls) : calls[i].line = line

OkAt(line) ==
  \E i \in 1..Len(calls) :
    calls[i].line = line /\ calls[i].code = ADBC_STATUS_OK

FailedAt(line) == \E i \in 1..Len(calls) : calls[i].line = line /\ Failed(i)

Printed(text) == \E k \in 1..Len(out) : out[k].text = text

\* The message of failing call i was printed on stdout with the given format.
Reported(text, i) ==
  \E k \in 1..Len(out) :
    out[k].text = text /\ out[k].msg = i /\ out[k].stream = "stdout"

\* A non-release call of the connect, schema or Test 1 stage returned non-OK.
EarlyFailure(i) ==
  /\ Failed(i)
  /\ calls[i].fn \notin ReleaseFns
  /\ Stage(calls[i].line) \in EarlyStages

C2_ReleasedExactlyOnce ==
  pc = Terminated => \A h \in constructed : released[h] = 1

\* ---------------------------------------------------------------------- C3
\* C3: once the Test 2 bind (line 127) has been attempted the run is never
\* fatal: the outcome that occurred (bind failed / bind OK and execute
\* failed / both OK) is the one reported on stdout, with the error of the
\* failing call, and on termination the array, schema, statement,
\* connection and database have each been released and the exit code is 0.
C3_NegativePathNonFatal ==
  \A i \in 1..Len(calls) :
    calls[i].line = 127 =>
      /\ exitCode \in {Running, 0}
      /\ pc = Terminated =>
           /\ exitCode = 0
           /\ \A h \in {"array2", "schema2", "statement4", "connection",
                        "database"} : released[h] = 1
      /\ Failed(i) =>
           /\ Reported("Failed: %s", i)
           /\ Printed("This is the bug - can't map Arrow type 'na' to Postgres type")
           /\ ~Printed("Success: NULL value inserted")
           /\ ~CallAt(132)
      /\ \A j \in 1..Len(calls) :
           calls[j].line = 132 =>
             /\ ~Failed(i)
             /\ Failed(j) => /\ Reported("Failed: %s", j)
                             /\ ~Printed("Success: NULL value inserted")
             /\ ~Failed(j) => /\ Printed("Success: NULL value inserted")
                              /\ ~Printed("Failed: %s")

\* C3 witness: bind OK, execute failed, run completed.
C3_Witness ==
  /\ pc = Terminated
  /\ OkAt(127)
  /\ FailedAt(132)

\* ---------------------------------------------------------------------- C4
\* C4 (as stated): on termination the exit code is 1 exactly when a call of
\* the connect, schema or Test 1 stage returned non-OK, and 0 otherwise,
\* whatever the calls of the Test 2 stage returned.
C4_ExitOneIffEarlyStageFails ==
  pc = Terminated =>
    /\ exitCode \in {0, 1}
    /\ exitCode = 1 <=> \E i \in 1..Len(calls) : EarlyFailure(i)

\* A call whose status is passed to CHECK_ADBC: every non-release call of
\* the first three stages and the statement creation and set-query of Test 2.
FatalFailure(i) ==
  /\ Failed(i)
  /\ \/ EarlyFailure(i)
     \/ /\ Stage(calls[i].line) = "test2"
        /\ calls[i].fn \in {"AdbcStatementNew", "AdbcStatementSetSqlQuery"}

\* C4 (amended): on termination the exit code is 1 exactly when a
\* non-release call of the connect, schema or Test 1 stage, or the
\* AdbcStatementNew / AdbcStatementSetSqlQuery of Test 2, returned non-OK;
\* otherwise it is 0, in particular when only the Test 2 bind or execute, or
\* a release call, returned non-OK.
C4_ExitOneIffCheckedCallFails ==
  pc = Terminated =>
    /\ exitCode \in {0, 1}
    /\ exitCode = 1 <=> \E i \in 1..Len(calls) : FatalFailure(i)

\* C4 witness: the AdbcStatementNew of Test 2 (line 105) failed.
C4_Witness ==
  /\ pc = Terminated
  /\ exitCode = 1
  /\ FailedAt(105)

\* ---------------------------------------------------------------------- C5
\* C5 (as stated): every message the program emits is written to stdout.
C5_AllOutputOnStdout ==
  \A k \in 1..Len(out) : out[k].stream = "stdout"

\* C5 (amended): every message is written to stdout except the driver
\* error message printed when a CHECK_ADBC-wrapped call fails, which is
\* written to stderr, is the last line of the run and carries the error of
\* the failing call.
C5_OnlyFatalErrorOnStderr ==
  \A k \in 1..Len(out) :
    /\ out[k].stream \in {"stdout", "stderr"}
    /\ out[k].stream = "stderr" <=> out[k].text = "Error: %s"
    /\ out[k].stream = "stderr" =>
         /\ k = Len(out)
         /\ pc = Terminated
         /\ exitCode = 1
         /\ out[k].msg = Len(calls)
         /\ FatalFailure(Len(calls))

\* C5 witness: AdbcDatabaseInit (line 48) failed and its error is on stderr
\* after the progress line on stdout.
C5_Witness ==
  /\ FailedAt(48)
  /\ Len(out) = 2
  /\ out[1].stream = "stdout"
  /\ out[2].stream = "stderr"

\* ---------------------------------------------------------------------- C6
\* C6: the output says that NULL parameters fail only if the Test 2 bind or
\* execute returned non-OK, reports Test 2 success only if both returned
\* OK, and never contains both.
C6_ReportsOnlyWhatOccurred ==
  LET saysFail ==
        Printed("NULL parameters fail with Arrow type 'na' mapping error")
      saysSuccess == Printed("Success: NULL value inserted")
      test2Failed == FailedAt(127) \/ FailedAt(132)
  IN  /\ saysFail => test2Failed
      /\ saysSuccess => (OkAt(127) /\ OkAt(132))
      /\ ~(saysFail /\ saysSuccess)

\* ---------------------------------------------------------------------- C7
\* C7: for every driver call that returned non-OK, its error message has
\* been printed before any other driver call is made (and before the run
\* ends).
C7_EveryStatusChecked ==
  \A i \in 1..Len(calls) :
    (Failed(i) /\ (i < Len(calls) \/ pc = Terminated)) =>
      \E k \in 1..Len(out) : out[k].msg = i /\ out[k].at = i

\* ---------------------------------------------------------------------- C8
\* Execute is reached only through an OK set-query on the same statement,
\* and the Test 2 execute only through an OK Test 2 bind.
ExecuteOnlyAfterOk ==
  \A j \in 1..Len(calls) :
    /\ calls[j].fn = "AdbcStatementExecuteQuery" =>
         \E i \in 1..(j - 1) :
           /\ calls[i].fn = "AdbcStatementSetSqlQuery"
           /\ calls[i].h = calls[j].h
           /\ ~Failed(i)
    /\ calls[j].line = 132 =>
         \E i \in 1..(j - 1) :
           /\ calls[i].line = 127
           /\ calls[i].h = calls[j].h
           /\ ~Failed(i)

\* C8 (as stated): after a driver call on a statement handle returned
\* non-OK, no further driver call is made on that handle; execute only
\* follows an OK set-query (and, in Test 2, an OK bind).
C8_NoCallAfterFailure ==
  /\ \A i \in 1..Len(calls) : \A j \in (i + 1)..Len(calls) :
       (Failed(i) /\ calls[i].h \in Statements) =>
         calls[i].h \notin calls[j].uses
  /\ ExecuteOnlyAfterOk

\* C8 (amended): after a driver call on a statement handle returned non-OK,
\* the only further driver call made on that handle is its
\* AdbcStatementRelease (line 142, after a failing Test 2 bind or execute);
\* execute only follows an OK set-query (and, in Test 2, an OK bind).
C8_OnlyReleaseAfterFailure ==
  /\ \A i \in 1..Len(calls) : \A j \in (i + 1)..Len(calls) :
       (Failed(i) /\ calls[i].h \in Statements
                  /\ calls[i].h \in calls[j].uses) =>
         /\ calls[j].fn = "AdbcStatementRelease"
         /\ calls[j].line = 142
         /\ calls[i].line \in {127, 132}
  /\ ExecuteOnlyAfterOk

\* C8 witness: the Test 2 bind failed and the statement was then released.
C8_Witness ==
  /\ FailedAt(127)
  /\ CallAt(142)

\* ---------------------------------------------------------------------- C9
\* C9: the Test 1 success message is printed exactly when the Test 1 bind
\* and execute both returned OK (it is the next statement after the
\* execute); every Test 2 driver call is preceded by it and by the release
\* of the Test 1 array, schema and statement; and a run that printed it
\* does not end before the Test 2 stage has made its first driver call.
C9_Test1Success ==
  LET success == Printed("Success: Non-NULL values inserted")
  IN  /\ success => (OkAt(95) /\ OkAt(96))
      /\ (OkAt(95) /\ OkAt(96) /\ pc # 97) => success
      /\ \A i \in 1..Len(calls) : Stage(calls[i].line) = "test2" => success
      /\ CallAt(105) =>
           \A h \in {"array1", "schema1", "statement3"} : released[h] = 1
      /\ (success /\ pc = Terminated) => CallAt(105)

\* C9 witness: Test 1 reported success and Test 2 has started.
C9_Witness ==
  /\ Printed("Success: Non-NULL values inserted")
  /\ CallAt(105)

\* --------------------------------------------------------------------- C10
\* C10: no driver call is passed a handle on which a release call was made
\* before; at most one statement is live at any time and each
\* AdbcStatementNew comes after the release of the statement created before
\* it; AdbcConnectionRelease comes after the release of every statement and
\* AdbcDatabaseRelease after AdbcConnectionRelease.  (A handle counts as
\* released once the release call on it was made.)
C10_HandleDiscipline ==
  /\ \A i \in 1..Len(calls) : \A j \in (i + 1)..Len(calls) :
       calls[i].fn \in ReleaseFns => calls[i].h \notin calls[j].uses
  /\ Cardinality({s \in Statements \cap constructed : released[s] = 0}) <= 1
  /\ \A i \in 1..Len(calls) : \A j \in (i + 1)..Len(calls) :
       (calls[i].fn = "AdbcStatementNew" /\ calls[j].fn = "AdbcStatementNew")
         => \E k \in (i + 1)..(j - 1) :
              /\ calls[k].fn = "AdbcStatementRelease"
              /\ calls[k].h = calls[i].h
  /\ \A j \in 1..Len(calls) :
       calls[j].fn = "AdbcConnectionRelease" =>
         \A s \in Statements \cap constructed :
           \E k \in 1..(j - 1) :
             calls[k].fn = "AdbcStatementRelease" /\ calls[k].h = s
  /\ \A j \in 1..Len(calls) :
       calls[j].fn = "AdbcDatabaseRelease" =>
         \E k \in 1..(j - 1) : calls[k].fn = "AdbcConnectionRelease"
  /\ \A h \in Handles : released[h] <= 1

\* C10 witness: the database was released at the end of a complete run.
C10_Witness ==
  /\ CallAt(147)
  /\ Cardinality(constructed) = Cardinality(Handles)

====
